---- MODULE Spec2Model ----
(***************************************************************************)
(* The websocket hub of internal/websocket/hub.go: the coordinator loop    *)
(* (Hub.Run and its three handlers), the per-connection read and write     *)
(* pumps, the initial-data task, the room limiters and the match poller.   *)
(*                                                                         *)
(* Every handler of the coordinator is one action: Hub.Run is the only     *)
(* goroutine that runs handleRegister, handleUnregister, handleBroadcast,  *)
(* broadcastToRoom and checkRateLimit, and these are the only places that  *)
(* touch h.clients, h.rooms, h.roomLimiters and h.mu.  Channel operations  *)
(* of the other goroutines (pumps, initial-data task, eviction tasks,      *)
(* poller) are separate actions that interleave with the handlers.         *)
(* handleRegister and handleUnregister call broadcastToRoom with h.mu held *)
(* for writing, and broadcastToRoom takes h.mu for reading: Spec leaves    *)
(* that lock out and takes every handler to its end, so that what a        *)
(* handler does to the index and to the queues can be stated at all.       *)
(* A send on a closed channel panics and ends the process: panicked.       *)
(***************************************************************************)
EXTENDS Integers, Sequences, FiniteSets, TLC

\* ---------------------------------------------------------------- bounds
Clients == {"A", "B"}
Rooms == {"m1", "m2"}
\* the room sets the connections are admitted with
Admissions == {[c \in Clients |-> IF c = "A" THEN {"m1", "m2"} ELSE {"m1"}]}
\* the rooms whose match GetLiveMatches may return
LiveRooms == {"m1"}
\* the rooms whose limiter earlier connections have used up when SpecWarm starts
UsedUp == {"m1"}
\* most eviction tasks (go h.unregister <- client) followed for one connection; one
\* started while that many are pending is not followed
MaxEvict == 1
\* capacity of Client.send (the accept path that makes the channel is not in src/)
SendCap == 2
\* burst of Client.limiter (set by the accept path, not in src/)
ConnBurst == 1
\* most history messages GetRecentMessages returns in the model (the code asks for 50)
MaxHist == 1
\* most events the surroundings put into one run: frames read, poller ticks, history
\* messages fetched, transport failures, token periods of a limiter that pass
MaxInputs == 2
\* most events of the surroundings in a run of SpecChat
MaxChatInputs == 3
\* burst of a room limiter, rate.NewLimiter(rate.Every(time.Second), 10)
RoomBurst == 10
\* the clock of the limiter followed in time counts tenths of a second
TicksPerSecond == 10
\* the time that limiter is followed for
MaxTicks == 30

None == "none"
Now == "now"
Forged == "forged"
Stored == "stored"
Zero == "zero"
NoPanic == "running"
SendOnClosed == "send on closed channel"
CloseOfClosed == "close of closed channel"

\* models.MessageType values the frames of the model carry
FrameTypes == {"chat"}
\* match snapshots the store returns in the model: home score, away score, status
Snapshots == {[home |-> 0, away |-> 0, status |-> "SCHEDULED"],
              [home |-> 0, away |-> 0, status |-> "LIVE"]}

\* models.WSMessage, the fields the hub reads or writes
Msg(type, room, user, content, ts, match) ==
    [type |-> type, room |-> room, user |-> user, content |-> content,
     ts |-> ts, match |-> match]

\* a decoded inbound frame: the client chooses every field, user and timestamp included
Frames ==
    {Msg(t, r, u, "hi", ts, None) :
        t \in FrameTypes, r \in Rooms, u \in Clients \cup {None}, ts \in {Forged}}

VARIABLES
    crooms,        \* Client.rooms, fixed when the connection is admitted
    phase,         \* "connecting": the accept path is blocked on h.register <- client
    hclients,      \* Hub.clients
    hrooms,        \* Hub.rooms: room -> member set, only for the entries that exist
    send,          \* Client.send: the payloads buffered in the channel
    closed,        \* Client.send has been closed
    gauge,         \* metrics.ConnectedClients
    roomLimiters,  \* Hub.roomLimiters: room -> tokens left, only for the limiters made
    limiter,       \* Client.limiter: tokens left
    rpc,           \* read pump position
    rmsg,          \* the message the read pump is blocked sending (to h.broadcast or c.send)
    wpc,           \* write pump position
    connOpen,      \* the websocket connection is open
    evict,         \* eviction tasks blocked on h.unregister <- client
    ipc,           \* initial-data task position
    matches,       \* Hub.matches: room -> cached snapshot
    poll,          \* poller position
    panicked,      \* NoPanic, or why a goroutine panicked, which ends the process
    budget,        \* events of the surroundings a run may still take
    handled,       \* unregister requests the coordinator has received for each connection
    persisted,     \* go h.persistMessage(message): the tasks started so far
    dropped,       \* broadcast events the limiter of each room has rejected so far
    mu,            \* Hub.mu: "free", or "write" while a handler holds it for writing
    hpc,           \* where the coordinator is when its handlers are followed step by step
    tick,          \* the poller's last tick: what GetLiveMatches returned, events submitted
    timed,         \* a room limiter followed on the clock: the time, the limiter, its answer
    wire,          \* the transport of each connection when it is followed: the frames
                   \* written to it and the payloads its write pump has taken from the queue
    login          \* loginAttempts followed on a clock of minutes, with what the calls
                   \* have returned and what has happened to each identifier

vars == <<crooms, phase, hclients, hrooms, send, closed, gauge, roomLimiters, limiter,
          rpc, rmsg, wpc, connOpen, evict, ipc, matches, poll, panicked, budget,
          handled, persisted, dropped, mu, hpc, tick, timed, wire, login>>

User(c) == c

\* one more event of the surroundings
Input == budget > 0 /\ budget' = budget - 1

\* a transport failure: an event of the surroundings while the connection is open, the
\* only outcome once it is closed
Failure(client) == IF connOpen[client] THEN Input ELSE UNCHANGED budget

IdleTask == [at |-> "idle", rooms |-> {}, room |-> None]
\* the coordinator in the select of Hub.Run
Waiting == [at |-> "select", op |-> None, room |-> None, msg |-> None]
IdlePoll == [at |-> "idle", todo |-> <<>>, msg |-> None]
\* tokens are counted in parts: this many parts make a token
Token == TicksPerSecond
\* time.Second on the clock of the model
Second == TicksPerSecond
Min(a, b) == IF a <= b THEN a ELSE b
\* rate.Every(interval): the parts of a token earned in one tick of the clock
Every(interval) == Token \div interval
\* rate.NewLimiter(limit, burst): the first call finds the bucket full
NewLimiter(limit, burst) ==
    [limit |-> limit, burst |-> burst, tokens |-> burst * Token, last |-> 0]
\* the tokens the limiter has at time t (Limiter.advance): what it had at its last
\* event and what the time since has earned, never more than the burst
Advance(lim, t) == Min(lim.burst * Token, lim.tokens + (t - lim.last) * lim.limit)
\* the limiter checkRateLimit makes for a room, at the time it is made
NewTimed ==
    [now |-> 0, lim |-> NewLimiter(Every(Second), RoomBurst), ok |-> FALSE]

\* the identifiers login attempts are tracked for
Identifiers == {"u1", "u2"}
\* if attempt.Count >= 5
MaxAttempts == 5
\* time.Since(*attempt.BlockedAt) < 15*time.Minute
BlockMinutes == 15
\* the minutes the clock of the login attempts runs for, and the failed attempts one
\* identifier makes in a run
MaxMinutes == 17
MaxFailures == 6

\* no entry in loginAttempts for the identifier; an entry as &LoginAttempt{} makes it
\* (BlockedAt nil is blocked FALSE)
NoAttempt == [exists |-> FALSE, count |-> 0, lastTry |-> 0, blocked |-> FALSE, blockedAt |-> 0]
NewAttempt == [exists |-> TRUE, count |-> 0, lastTry |-> 0, blocked |-> FALSE, blockedAt |-> 0]

\* nothing has happened to the identifier since its last successful attempt
NoHistory == [failed |-> 0, refused |-> FALSE, refusedAt |-> 0, returned |-> "none"]

\* var loginAttempts = make(map[string]*LoginAttempt), at minute 0
NewLogin ==
    [now |-> 0,
     attempts |-> [i \in Identifiers |-> NoAttempt],
     seen |-> [i \in Identifiers |-> NoHistory]]

\* no tick of the poller yet
NoTick == [err |-> FALSE, fetched |-> << >>, sent |-> 0]

\* the hub as NewHub makes it, with the connections the accept path is about to register;
\* the room limiters and the budget are left to the specification
InitHub ==
    /\ crooms \in Admissions
    /\ phase = [c \in Clients |-> "connecting"]
    /\ hclients = {}
    /\ hrooms = << >>
    /\ send = [c \in Clients |-> << >>]
    /\ closed = [c \in Clients |-> FALSE]
    /\ gauge = 0
    /\ limiter = [c \in Clients |-> ConnBurst]
    /\ rpc = [c \in Clients |-> "idle"]
    /\ rmsg = [c \in Clients |-> None]
    /\ wpc = [c \in Clients |-> "idle"]
    /\ connOpen = [c \in Clients |-> TRUE]
    /\ evict = [c \in Clients |-> 0]
    /\ ipc = [c \in Clients |-> IdleTask]
    /\ matches = << >>
    /\ poll = IdlePoll
    /\ tick = NoTick
    /\ timed = NewTimed
    /\ wire = [c \in Clients |-> [frames |-> << >>, taken |-> << >>]]
    /\ login = NewLogin
    /\ panicked = NoPanic
    /\ handled = [c \in Clients |-> 0]
    /\ persisted = 0
    /\ dropped = [r \in Rooms |-> 0]
    /\ mu = "free"
    /\ hpc = Waiting

Init ==
    /\ InitHub
    /\ roomLimiters = << >>
    /\ budget = MaxInputs

\* the hub after earlier connections, all of them gone, have used up the limiter of a
\* room: h.roomLimiters keeps a limiter once it is made
InitWarm ==
    /\ InitHub
    /\ roomLimiters = [r \in UsedUp |-> 0]
    /\ budget = MaxInputs

\* the hub as in Init, for the runs of SpecChat
InitChat ==
    /\ InitHub
    /\ roomLimiters = << >>
    /\ budget = MaxChatInputs

\* ------------------------------------------------------------ coordinator
\* The part of the state a handler of the coordinator reads and writes.
HubState ==
    [rooms |-> hrooms, send |-> send, closed |-> closed, evict |-> evict, panic |-> NoPanic]

Members(rooms, room) == IF room \in DOMAIN rooms THEN rooms[room] ELSE {}

\* a fan-out that puts the payload in front of what is queued
BroadcastToFront(st, room, message) ==
    LET clients == Members(st.rooms, room)
        full(c) == Len(st.send[c]) >= SendCap
    IN [st EXCEPT
          !.send = [c \in Clients |->
                      IF c \in clients /\ ~st.closed[c] /\ ~full(c)
                      THEN <<message>> \o st.send[c] ELSE st.send[c]],
          !.evict = [c \in Clients |->
                      IF c \in clients /\ ~st.closed[c] /\ full(c)
                      THEN (IF st.evict[c] < MaxEvict THEN st.evict[c] + 1 ELSE MaxEvict)
                      ELSE st.evict[c]]]

\* a fan-out that leaves out the connections of the sender
BroadcastToOthers(st, room, message) ==
    LET clients == {c \in Members(st.rooms, room) : User(c) # message.user}
        full(c) == Len(st.send[c]) >= SendCap
    IN [st EXCEPT
          !.send = [c \in Clients |->
                      IF c \in clients /\ ~st.closed[c] /\ ~full(c)
                      THEN Append(st.send[c], message) ELSE st.send[c]],
          !.evict = [c \in Clients |->
                      IF c \in clients /\ ~st.closed[c] /\ full(c)
                      THEN (IF st.evict[c] < MaxEvict THEN st.evict[c] + 1 ELSE MaxEvict)
                      ELSE st.evict[c]]]

\* Hub.broadcastToRoom: a non-blocking send to every member of the room; a member whose
\* queue is full gets an eviction task (go h.unregister <- client) instead.
BroadcastToRoom(st, room, message) ==
    LET clients == Members(st.rooms, room)
        full(c) == Len(st.send[c]) >= SendCap
    IN [st EXCEPT
          !.send = [c \in Clients |->
                      IF c \in clients /\ ~st.closed[c] /\ ~full(c)
                      THEN Append(st.send[c], message) ELSE st.send[c]],
          !.evict = [c \in Clients |->
                      IF c \in clients /\ ~st.closed[c] /\ full(c)
                      THEN (IF st.evict[c] < MaxEvict THEN st.evict[c] + 1 ELSE MaxEvict)
                      ELSE st.evict[c]],
          !.panic = IF st.panic = NoPanic /\ (\E c \in clients : st.closed[c])
                    THEN SendOnClosed ELSE st.panic]

\* the orders in which a range over a map with these keys may run
RECURSIVE Orders(_)
Orders(S) ==
    IF S = {} THEN {<< >>}
    ELSE UNION {{<<x>> \o o : o \in Orders(S \ {x})} : x \in S}

JoinRoom(rooms, room, client) ==
    [r \in DOMAIN rooms \cup {room} |->
        IF r = room THEN Members(rooms, room) \cup {client} ELSE rooms[r]]

\* a leave that keeps the entry of an emptied room for which a snapshot is cached
LeaveRoomKeepCached(rooms, room, client) ==
    LET left == rooms[room] \ {client}
        keep == IF left = {} /\ room \notin DOMAIN matches
                THEN DOMAIN rooms \ {room} ELSE DOMAIN rooms
    IN [r \in keep |-> IF r = room THEN left ELSE rooms[r]]

\* (a leave that never removes the entry of a room)
LeaveRoomKeepEmpty(rooms, room, client) ==
    [r \in DOMAIN rooms |-> IF r = room THEN rooms[room] \ {client} ELSE rooms[r]]

\* delete(clients, client), and delete(h.rooms, room) when no member is left
LeaveRoom(rooms, room, client) ==
    LET left == rooms[room] \ {client}
        keep == IF left = {} THEN DOMAIN rooms \ {room} ELSE DOMAIN rooms
    IN [r \in keep |-> IF r = room THEN left ELSE rooms[r]]

\* (a loop that fans the join event out only if the limiter of the room has a token)
RECURSIVE RegisterRoomsLimited(_, _, _)
RegisterRoomsLimited(st, client, order) ==
    IF order = << >> THEN st
    ELSE LET room == Head(order)
             joined == [st EXCEPT !.rooms = JoinRoom(st.rooms, room, client)]
             joinMsg == Msg("join", room, User(client), "", Now, None)
             limited == room \in DOMAIN roomLimiters /\ roomLimiters[room] = 0
         IN RegisterRoomsLimited(
                IF limited THEN joined ELSE BroadcastToRoom(joined, room, joinMsg),
                client, Tail(order))

\* (a loop that ends after the first room)
RegisterFirstRoom(st, client, order) ==
    IF order = << >> THEN st
    ELSE LET room == Head(order)
             joined == [st EXCEPT !.rooms = JoinRoom(st.rooms, room, client)]
             joinMsg == Msg("join", room, User(client), "", Now, None)
         IN BroadcastToRoom(joined, room, joinMsg)

\* the loop of handleRegister over client.rooms, in the order given
RECURSIVE RegisterRooms(_, _, _)
RegisterRooms(st, client, order) ==
    IF order = << >> THEN st
    ELSE LET room == Head(order)
             joined == [st EXCEPT !.rooms = JoinRoom(st.rooms, room, client)]
             joinMsg == Msg("join", room, User(client), "", Now, None)
         IN RegisterRooms(BroadcastToRoom(joined, room, joinMsg), client, Tail(order))

\* (a loop that ends after the first room)
UnregisterFirstRoom(st, client, order) ==
    IF order = << >> THEN st
    ELSE LET room == Head(order)
             leaveMsg == Msg("leave", room, User(client), "", Now, None)
         IN IF room \in DOMAIN st.rooms
            THEN BroadcastToRoom([st EXCEPT !.rooms = LeaveRoom(st.rooms, room, client)],
                                 room, leaveMsg)
            ELSE st

\* the loop of handleUnregister over client.rooms, in the order given
RECURSIVE UnregisterRooms(_, _, _)
UnregisterRooms(st, client, order) ==
    IF order = << >> THEN st
    ELSE LET room == Head(order)
             leaveMsg == Msg("leave", room, User(client), "", Now, None)
             next == IF room \in DOMAIN st.rooms
                     THEN BroadcastToRoom(
                              [st EXCEPT !.rooms = LeaveRoom(st.rooms, room, client)],
                              room, leaveMsg)
                     ELSE st
         IN UnregisterRooms(next, client, Tail(order))

\* what a handler leaves behind
Commit(st) ==
    /\ hrooms' = st.rooms
    /\ send' = st.send
    /\ closed' = st.closed
    /\ evict' = st.evict
    /\ panicked' = st.panic

StartTask(client) ==
    [at |-> "fetch", rooms |-> crooms[client], room |-> None]

\* Hub.handleRegister, received from h.register; the accept path then starts the pumps
HandleRegister(client) ==
    /\ panicked = NoPanic
    /\ phase[client] = "connecting"
    /\ \E order \in Orders(crooms[client]) :
          Commit(RegisterRooms(HubState, client, order))
    /\ hclients' = hclients \cup {client}
    /\ ipc' = [ipc EXCEPT ![client] = StartTask(client)]
    /\ gauge' = gauge + 1
    /\ phase' = [phase EXCEPT ![client] = "live"]
    /\ rpc' = [rpc EXCEPT ![client] = "read"]
    /\ wpc' = [wpc EXCEPT ![client] = "run"]
    /\ UNCHANGED <<crooms, timed, wire, login, roomLimiters, limiter, rmsg, connOpen, matches, poll, tick, budget, handled,
                   persisted, dropped, mu, hpc>>

\* Hub.handleUnregister, on the state st of the index
Unregister(st, client, order) ==
    UnregisterRooms([st EXCEPT !.closed[client] = TRUE,
                               !.panic = IF st.closed[client] THEN CloseOfClosed ELSE @],
                    client, order)

\* a handler that takes every connection for a registered one
PresentAlways(client) == TRUE

\* if _, ok := h.clients[client]; ok
Present(client) == client \in hclients

\* Hub.handleUnregister, received from an eviction task
HandleUnregisterEvicted(client) ==
    /\ panicked = NoPanic
    /\ evict[client] > 0
    /\ handled' = [handled EXCEPT ![client] = @ + 1]
    /\ LET st == [HubState EXCEPT !.evict[client] = @ - 1]
       IN IF Present(client)
          THEN /\ \E order \in Orders(crooms[client]) :
                     Commit(Unregister(st, client, order))
               /\ hclients' = hclients \ {client}
               /\ gauge' = gauge - 1
          ELSE /\ Commit(st)
               /\ UNCHANGED <<hclients, gauge>>
    /\ UNCHANGED <<crooms, timed, wire, login, phase, roomLimiters, limiter, rpc, rmsg, wpc, connOpen,
                   ipc, matches, poll, tick, budget,
                   persisted, dropped, mu, hpc>>

\* Hub.handleUnregister, received from the deferred send of a read pump, which then
\* closes the connection
HandleUnregisterPump(client) ==
    /\ panicked = NoPanic
    /\ rpc[client] = "unreg"
    /\ handled' = [handled EXCEPT ![client] = @ + 1]
    /\ IF Present(client)
       THEN /\ \E order \in Orders(crooms[client]) :
                  Commit(Unregister(HubState, client, order))
            /\ hclients' = hclients \ {client}
            /\ gauge' = gauge - 1
       ELSE /\ Commit(HubState)
            /\ UNCHANGED <<hclients, gauge>>
    /\ rpc' = [rpc EXCEPT ![client] = "done"]
    /\ connOpen' = [connOpen EXCEPT ![client] = FALSE]
    /\ UNCHANGED <<crooms, timed, wire, login, phase, roomLimiters, limiter, rmsg, wpc, ipc, matches, poll, tick, budget,
                   persisted, dropped, mu, hpc>>

\* a limiter that lets every message through
AllowAlways(room) == TRUE

\* Hub.checkRateLimit: the limiter of the room, made with a full burst when missing;
\* limiter.Allow() takes a token if there is one
Tokens(room) == IF room \in DOMAIN roomLimiters THEN roomLimiters[room] ELSE RoomBurst

CheckRateLimit(room) == Tokens(room) > 0

TakeToken(room) ==
    [r \in DOMAIN roomLimiters \cup {room} |->
        IF r = room
        THEN (IF Tokens(room) > 0 THEN Tokens(room) - 1 ELSE 0)
        ELSE roomLimiters[r]]

\* (a handler that starts a persistence task for every event the limiter accepts)
BroadcastStoreAll(message) ==
    /\ roomLimiters' = TakeToken(message.room)
    /\ IF CheckRateLimit(message.room)
       THEN /\ Commit(BroadcastToRoom(HubState, message.room, message))
            /\ persisted' = persisted + 1
            /\ UNCHANGED dropped
       ELSE /\ Commit(HubState)
            /\ dropped' = [dropped EXCEPT ![message.room] = @ + 1]
            /\ UNCHANGED persisted

\* a handler that starts the persistence task before it asks the limiter
BroadcastStoreFirst(message) ==
    /\ roomLimiters' = TakeToken(message.room)
    /\ persisted' = IF message.type = "chat" THEN persisted + 1 ELSE persisted
    /\ IF CheckRateLimit(message.room)
       THEN /\ Commit(BroadcastToRoom(HubState, message.room, message))
            /\ UNCHANGED dropped
       ELSE /\ Commit(HubState)
            /\ dropped' = [dropped EXCEPT ![message.room] = @ + 1]

\* Hub.handleBroadcast on a message received from h.broadcast
Broadcast(message) ==
    /\ roomLimiters' = TakeToken(message.room)
    /\ IF CheckRateLimit(message.room)
       THEN /\ Commit(BroadcastToRoom(HubState, message.room, message))
            /\ persisted' = IF message.type = "chat" THEN persisted + 1 ELSE persisted
            /\ UNCHANGED dropped
       ELSE /\ Commit(HubState)
            /\ dropped' = [dropped EXCEPT ![message.room] = @ + 1]
            /\ UNCHANGED persisted

\* Hub.handleBroadcast, the message coming from a read pump blocked on h.broadcast
HandleBroadcastPump(client) ==
    /\ panicked = NoPanic
    /\ rpc[client] = "submit"
    /\ Broadcast(rmsg[client])
    /\ rpc' = [rpc EXCEPT ![client] = "read"]
    /\ rmsg' = [rmsg EXCEPT ![client] = None]
    /\ UNCHANGED <<crooms, timed, wire, login, phase, hclients, gauge, limiter, wpc, connOpen, ipc,
                   matches, poll, tick, budget, handled, mu, hpc>>

\* the time that passes earns a room limiter a token (rate.Every(time.Second))
RoomRefill(room) ==
    /\ panicked = NoPanic
    /\ room \in DOMAIN roomLimiters
    /\ roomLimiters[room] < RoomBurst
    /\ Input
    /\ roomLimiters' = [roomLimiters EXCEPT ![room] = @ + 1]
    /\ UNCHANGED <<crooms, timed, wire, login, phase, hclients, hrooms, send, closed, gauge, limiter, rpc,
                   rmsg, wpc, connOpen, evict, ipc, matches, poll, tick, panicked, handled,
                   persisted, dropped, mu, hpc>>

\* a tenth of a second passes
Elapse ==
    /\ timed.now < MaxTicks
    /\ timed' = [timed EXCEPT !.now = @ + 1]
    /\ UNCHANGED <<crooms, phase, hclients, hrooms, send, closed, gauge, roomLimiters,
                   limiter, rpc, rmsg, wpc, connOpen, evict, ipc, matches, poll, panicked,
                   budget, handled, persisted, dropped, mu, hpc, tick, wire, login>>

\* limiter.Allow() at the time of the clock: a token is taken if the limiter has one
AllowNow ==
    /\ LET avail == Advance(timed.lim, timed.now)
       IN IF avail >= Token
          THEN timed' = [timed EXCEPT !.lim.tokens = avail - Token,
                                      !.lim.last = timed.now, !.ok = TRUE]
          ELSE timed' = [timed EXCEPT !.ok = FALSE]
    /\ UNCHANGED <<crooms, phase, hclients, hrooms, send, closed, gauge, roomLimiters,
                   limiter, rpc, rmsg, wpc, connOpen, evict, ipc, matches, poll, panicked,
                   budget, handled, persisted, dropped, mu, hpc, tick, wire, login>>

\* ---------------------------------------------------------------- read pump
ErrorMsg(content) == Msg("error", "", None, content, Zero, None)

\* a pump that submits the frame with the fields the peer wrote
StampNothing(client, frame) == frame

\* wsMessage.User = c.user; wsMessage.Timestamp = time.Now()
Stamp(client, frame) == [frame EXCEPT !.user = User(client), !.ts = Now]

\* (a check that lets every room through)
CanAccessAny(client, room) == TRUE

\* Client.canAccessRoom
CanAccessRoom(client, room) == room \in crooms[client]

\* c.send <- payload, a blocking send: it panics on a closed channel, completes when
\* there is room, and otherwise leaves the pump blocked with the payload in hand
Reply(client, payload) ==
    IF closed[client]
    THEN /\ panicked' = SendOnClosed
         /\ UNCHANGED <<send, rpc, rmsg>>
    ELSE IF Len(send[client]) < SendCap
    THEN /\ send' = [send EXCEPT ![client] = Append(@, payload)]
         /\ rpc' = [rpc EXCEPT ![client] = "read"]
         /\ rmsg' = [rmsg EXCEPT ![client] = None]
         /\ UNCHANGED panicked
    ELSE /\ rpc' = [rpc EXCEPT ![client] = "reply"]
         /\ rmsg' = [rmsg EXCEPT ![client] = payload]
         /\ UNCHANGED <<send, panicked>>

\* a pump that reads the next frame while its last event still waits for the coordinator
OnFrameEarly(client, frame) ==
    /\ panicked = NoPanic
    /\ rpc[client] \in {"read", "submit"}
    /\ connOpen[client]
    /\ Input
    /\ IF limiter[client] = 0
       THEN /\ Reply(client, ErrorMsg("Rate limit exceeded"))
            /\ UNCHANGED limiter
       ELSE /\ limiter' = [limiter EXCEPT ![client] = @ - 1]
            /\ IF ~CanAccessRoom(client, frame.room)
               THEN Reply(client, ErrorMsg("Room access denied"))
               ELSE /\ rpc' = [rpc EXCEPT ![client] = "submit"]
                    /\ rmsg' = [rmsg EXCEPT ![client] = Stamp(client, frame)]
                    /\ UNCHANGED <<send, panicked>>
    /\ UNCHANGED <<crooms, timed, wire, login, phase, hclients, hrooms, closed, gauge, roomLimiters, wpc,
                   connOpen, evict, ipc, matches, poll, tick, handled,
                   persisted, dropped, mu, hpc>>

\* one turn of the loop of Client.readPump on a frame that decodes into the message frame
OnFrame(client, frame) ==
    /\ panicked = NoPanic
    /\ rpc[client] = "read"
    /\ connOpen[client]
    /\ Input
    /\ IF limiter[client] = 0
       THEN /\ Reply(client, ErrorMsg("Rate limit exceeded"))
            /\ UNCHANGED limiter
       ELSE /\ limiter' = [limiter EXCEPT ![client] = @ - 1]
            /\ IF ~CanAccessRoom(client, frame.room)
               THEN Reply(client, ErrorMsg("Room access denied"))
               ELSE /\ rpc' = [rpc EXCEPT ![client] = "submit"]
                    /\ rmsg' = [rmsg EXCEPT ![client] = Stamp(client, frame)]
                    /\ UNCHANGED <<send, panicked>>
    /\ UNCHANGED <<crooms, timed, wire, login, phase, hclients, hrooms, closed, gauge, roomLimiters, wpc,
                   connOpen, evict, ipc, matches, poll, tick, handled,
                   persisted, dropped, mu, hpc>>

ReadFrame(client) == \E frame \in Frames : OnFrame(client, frame)

\* the values of models.MessageType; json.Unmarshal takes any of them, as it takes any
\* other string, for the type of an inbound frame
MessageTypes == {"chat", "join", "leave", "typing", "event", "error"}

\* decoded inbound frames of every type
FramesOfAnyType ==
    {Msg(t, r, None, "hi", Forged, None) : t \in MessageTypes, r \in Rooms}

\* one turn of the loop of Client.readPump, the frame being of any type
ReadAnyFrame(client) == \E frame \in FramesOfAnyType : OnFrame(client, frame)

\* (a pump that asks the limiter before it decodes the frame)
ReadBadFrameCounted(client) ==
    /\ panicked = NoPanic
    /\ rpc[client] = "read"
    /\ connOpen[client]
    /\ Input
    /\ limiter' = [limiter EXCEPT ![client] = IF @ > 0 THEN @ - 1 ELSE 0]
    /\ UNCHANGED <<crooms, timed, wire, login, phase, hclients, hrooms, send, closed, gauge, roomLimiters,
                   rpc, rmsg, wpc, connOpen, evict, ipc, matches, poll, tick, panicked, handled,
                   persisted, dropped, mu, hpc>>

\* one turn of the loop on a frame json.Unmarshal rejects: logged, continue
ReadBadFrame(client) ==
    /\ panicked = NoPanic
    /\ rpc[client] = "read"
    /\ connOpen[client]
    /\ Input
    /\ UNCHANGED <<crooms, timed, wire, login, phase, hclients, hrooms, send, closed, gauge, roomLimiters,
                   limiter, rpc, rmsg, wpc, connOpen, evict, ipc, matches, poll, tick, panicked, handled,
                   persisted, dropped, mu, hpc>>

\* the read pump blocked in c.send <- payload gets to send
ReplyBlocked(client) ==
    /\ panicked = NoPanic
    /\ rpc[client] = "reply"
    /\ closed[client] \/ Len(send[client]) < SendCap
    /\ Reply(client, rmsg[client])
    /\ UNCHANGED <<crooms, timed, wire, login, phase, hclients, hrooms, closed, gauge, roomLimiters, limiter,
                   wpc, connOpen, evict, ipc, matches, poll, tick, budget, handled,
                   persisted, dropped, mu, hpc>>

\* (a pump that closes the connection before it sends on h.unregister)
ReadErrorCloseFirst(client) ==
    /\ panicked = NoPanic
    /\ rpc[client] = "read"
    /\ Failure(client)
    /\ rpc' = [rpc EXCEPT ![client] = "unreg"]
    /\ connOpen' = [connOpen EXCEPT ![client] = FALSE]
    /\ UNCHANGED <<crooms, timed, wire, login, phase, hclients, hrooms, send, closed, gauge, roomLimiters,
                   limiter, rmsg, wpc, evict, ipc, matches, poll, tick, panicked, handled,
                   persisted, dropped, mu, hpc>>

\* ReadMessage fails (the peer went away, the deadline passed, the connection was
\* closed): the loop breaks and the deferred function sends on h.unregister
ReadError(client) ==
    /\ panicked = NoPanic
    /\ rpc[client] = "read"
    /\ Failure(client)
    /\ rpc' = [rpc EXCEPT ![client] = "unreg"]
    /\ UNCHANGED <<crooms, timed, wire, login, phase, hclients, hrooms, send, closed, gauge, roomLimiters,
                   limiter, rmsg, wpc, connOpen, evict, ipc, matches, poll, tick, panicked, handled,
                   persisted, dropped, mu, hpc>>

\* the time that passes earns a connection's limiter a token
ConnRefill(client) ==
    /\ panicked = NoPanic
    /\ phase[client] = "live"
    /\ limiter[client] < ConnBurst
    /\ Input
    /\ limiter' = [limiter EXCEPT ![client] = @ + 1]
    /\ UNCHANGED <<crooms, timed, wire, login, phase, hclients, hrooms, send, closed, gauge, roomLimiters,
                   rpc, rmsg, wpc, connOpen, evict, ipc, matches, poll, tick, panicked, handled,
                   persisted, dropped, mu, hpc>>

\* --------------------------------------------------------------- write pump
\* case message, ok := <-c.send with ok: the payload and all that is queued behind it go
\* into one frame; a failing NextWriter loses the payload taken, a failing Close the frame
WriteFrame(client) ==
    /\ panicked = NoPanic
    /\ wpc[client] = "run"
    /\ send[client] # << >>
    /\ \/ /\ connOpen[client]
          /\ send' = [send EXCEPT ![client] = << >>]
          /\ UNCHANGED <<wpc, connOpen, budget>>
       \/ /\ Failure(client)
          /\ send' = [send EXCEPT ![client] = Tail(@)]
          /\ wpc' = [wpc EXCEPT ![client] = "done"]
          /\ connOpen' = [connOpen EXCEPT ![client] = FALSE]
       \/ /\ Failure(client)
          /\ send' = [send EXCEPT ![client] = << >>]
          /\ wpc' = [wpc EXCEPT ![client] = "done"]
          /\ connOpen' = [connOpen EXCEPT ![client] = FALSE]
    /\ UNCHANGED <<crooms, timed, wire, login, phase, hclients, hrooms, closed, gauge, roomLimiters, limiter,
                   rpc, rmsg, evict, ipc, matches, poll, tick, panicked, handled,
                   persisted, dropped, mu, hpc>>

\* case message, ok := <-c.send with !ok: the close frame, and the pump returns
WriteClose(client) ==
    /\ panicked = NoPanic
    /\ wpc[client] = "run"
    /\ send[client] = << >>
    /\ closed[client]
    /\ wpc' = [wpc EXCEPT ![client] = "done"]
    /\ connOpen' = [connOpen EXCEPT ![client] = FALSE]
    /\ UNCHANGED <<crooms, timed, wire, login, phase, hclients, hrooms, send, closed, gauge, roomLimiters,
                   limiter, rpc, rmsg, evict, ipc, matches, poll, tick, panicked, budget, handled,
                   persisted, dropped, mu, hpc>>

\* case <-ticker.C with a ping that fails: the pump returns
WritePingError(client) ==
    /\ panicked = NoPanic
    /\ wpc[client] = "run"
    /\ Failure(client)
    /\ wpc' = [wpc EXCEPT ![client] = "done"]
    /\ connOpen' = [connOpen EXCEPT ![client] = FALSE]
    /\ UNCHANGED <<crooms, timed, wire, login, phase, hclients, hrooms, send, closed, gauge, roomLimiters,
                   limiter, rpc, rmsg, evict, ipc, matches, poll, tick, panicked, handled,
                   persisted, dropped, mu, hpc>>

\* ------------------------------------------ write pump, transport followed
\* the byte '\n' between two payloads of a frame, and the close frame
NL == [type |-> "newline"]
CloseFrame == [kind |-> "close", text |-> << >>]
\* a websocket.TextMessage frame with this text
TextFrame(text) == [kind |-> "text", text |-> text]

\* (a frame with the payloads one after the other and nothing between them)
RECURSIVE CoalesceBare(_)
CoalesceBare(queue) ==
    IF queue = << >> THEN << >> ELSE <<queue[1]>> \o CoalesceBare(Tail(queue))

\* w.Write(message), then '\n' and the next payload for each one queued behind it: the
\* frame as the text written, a payload being one piece of JSON without a line break
RECURSIVE Coalesce(_)
Coalesce(queue) ==
    IF Len(queue) <= 1 THEN queue
    ELSE <<queue[1], NL>> \o Coalesce(Tail(queue))

\* case message, ok := <-c.send with ok, the transport followed: a frame that is closed
\* without an error is on the transport; a failing NextWriter loses the payload taken, a
\* failing Close the payloads of the frame
WriteFrameWire(client) ==
    /\ panicked = NoPanic
    /\ wpc[client] = "run"
    /\ send[client] # << >>
    /\ \/ /\ connOpen[client]
          /\ send' = [send EXCEPT ![client] = << >>]
          /\ wire' = [wire EXCEPT ![client].frames = Append(@, TextFrame(Coalesce(send[client]))),
                                  ![client].taken = @ \o send[client]]
          /\ UNCHANGED <<wpc, connOpen, budget>>
       \/ /\ Failure(client)
          /\ send' = [send EXCEPT ![client] = Tail(@)]
          /\ wire' = [wire EXCEPT ![client].taken = Append(@, Head(send[client]))]
          /\ wpc' = [wpc EXCEPT ![client] = "done"]
          /\ connOpen' = [connOpen EXCEPT ![client] = FALSE]
       \/ /\ Failure(client)
          /\ send' = [send EXCEPT ![client] = << >>]
          /\ wire' = [wire EXCEPT ![client].taken = @ \o send[client]]
          /\ wpc' = [wpc EXCEPT ![client] = "done"]
          /\ connOpen' = [connOpen EXCEPT ![client] = FALSE]
    /\ UNCHANGED <<crooms, timed, login, phase, hclients, hrooms, closed, gauge, roomLimiters, limiter,
                   rpc, rmsg, evict, ipc, matches, poll, tick, panicked, handled,
                   persisted, dropped, mu, hpc>>

\* (a pump that sends the close frame as soon as the queue is closed)
WriteCloseEarly(client) ==
    /\ panicked = NoPanic
    /\ wpc[client] = "run"
    /\ closed[client]
    /\ wpc' = [wpc EXCEPT ![client] = "done"]
    /\ connOpen' = [connOpen EXCEPT ![client] = FALSE]
    /\ wire' = IF connOpen[client]
               THEN [wire EXCEPT ![client].frames = Append(@, CloseFrame)]
               ELSE wire
    /\ UNCHANGED <<crooms, timed, login, phase, hclients, hrooms, send, closed, gauge, roomLimiters,
                   limiter, rpc, rmsg, evict, ipc, matches, poll, tick, panicked, budget, handled,
                   persisted, dropped, mu, hpc>>

\* case message, ok := <-c.send with !ok, the transport followed: the close frame (its
\* error is not looked at), and the pump returns
WriteCloseWire(client) ==
    /\ panicked = NoPanic
    /\ wpc[client] = "run"
    /\ send[client] = << >>
    /\ closed[client]
    /\ wpc' = [wpc EXCEPT ![client] = "done"]
    /\ connOpen' = [connOpen EXCEPT ![client] = FALSE]
    /\ wire' = IF connOpen[client]
               THEN [wire EXCEPT ![client].frames = Append(@, CloseFrame)]
               ELSE wire
    /\ UNCHANGED <<crooms, timed, login, phase, hclients, hrooms, send, closed, gauge, roomLimiters,
                   limiter, rpc, rmsg, evict, ipc, matches, poll, tick, panicked, budget, handled,
                   persisted, dropped, mu, hpc>>

\* ------------------------------------------------------- initial-data task
\* h.matchMu: the initial-data task holds it for reading while it is blocked sending
\* the snapshot; the poller holds it for writing from Lock to the deferred Unlock
Readers == {c \in Clients : ipc[c].at = "match"}

\* a pending or holding writer keeps new readers out
CanRLock == poll.at = "idle"

HistoryMsg(room) == Msg("chat", room, Stored, "old", Stored, None)

MatchMsg(room, match) == Msg("event", room, None, "", Now, match)

\* what GetRecentMessages may give for a room: an error, or this many messages
StoreResults ==
    {[err |-> TRUE, n |-> 0]} \cup {[err |-> FALSE, n |-> k] : k \in 0..MaxHist}

RECURSIVE Fetched(_, _)
Fetched(order, res) ==
    IF order = << >> THEN 0
    ELSE res[Head(order)].n + Fetched(Tail(order), res)

Range(seq) == {seq[i] : i \in 1..Len(seq)}

Task(queue, at, order, room, panic) ==
    [send |-> queue, at |-> at, rooms |-> Range(order), room |-> room, panic |-> panic]

\* the history loop for one room, n messages fetched: each is a non-blocking send, and
\* the first that finds the queue full ends the task (return)
RECURSIVE SendHistory(_, _, _)
SendHistory(queue, room, n) ==
    IF n = 0 THEN [send |-> queue, returned |-> FALSE]
    ELSE IF Len(queue) < SendCap
    THEN SendHistory(Append(queue, HistoryMsg(room)), room, n - 1)
    ELSE [send |-> queue, returned |-> TRUE]

\* Hub.sendInitialData from the top of its loop over client.rooms, run up to the place
\* where it ends, blocks or panics: order is the order of the rooms left, res what the
\* store returns for each
RECURSIVE InitLoop(_, _, _, _)
RECURSIVE Snapshot(_, _, _, _, _)
InitLoop(client, queue, order, res) ==
    IF order = << >> THEN Task(queue, "done", << >>, None, NoPanic)
    ELSE LET room == Head(order)
             h == SendHistory(queue, room, res[room].n)
         IN IF res[room].err THEN InitLoop(client, queue, Tail(order), res)
            ELSE IF res[room].n > 0 /\ closed[client]
            THEN Task(queue, "done", << >>, None, SendOnClosed)
            ELSE IF h.returned THEN Task(h.send, "done", << >>, None, NoPanic)
            ELSE Snapshot(client, h.send, room, Tail(order), res)

\* h.matchMu.RLock(), which waits while the poller holds or awaits the lock; then the
\* snapshot of the room, if one is cached, in a blocking send made under the lock: it
\* panics on a closed channel and blocks, holding the lock, while the queue is full
Snapshot(client, queue, room, rest, res) ==
    IF ~CanRLock THEN Task(queue, "rlock", rest, room, NoPanic)
    ELSE IF room \notin DOMAIN matches THEN InitLoop(client, queue, rest, res)
    ELSE IF closed[client] THEN Task(queue, "done", << >>, None, SendOnClosed)
    ELSE IF Len(queue) < SendCap
    THEN InitLoop(client, Append(queue, MatchMsg(room, matches[room])), rest, res)
    ELSE Task(queue, "match", rest, room, NoPanic)

TaskCommit(client, t) ==
    /\ send' = [send EXCEPT ![client] = t.send]
    /\ ipc' = [ipc EXCEPT ![client] = [at |-> t.at, rooms |-> t.rooms, room |-> t.room]]
    /\ panicked' = t.panic

\* go h.sendInitialData(client), from its start
InitTask(client) ==
    /\ panicked = NoPanic
    /\ ipc[client].at = "fetch"
    /\ \E order \in Orders(ipc[client].rooms) :
       \E res \in [ipc[client].rooms -> StoreResults] :
          /\ Fetched(order, res) <= budget
          /\ budget' = budget - Fetched(order, res)
          /\ TaskCommit(client, InitLoop(client, send[client], order, res))
    /\ UNCHANGED <<crooms, timed, wire, login, phase, hclients, hrooms, closed, gauge, roomLimiters, limiter,
                   rpc, rmsg, wpc, connOpen, evict, matches, poll, tick, handled,
                   persisted, dropped, mu, hpc>>

\* the task blocked in h.matchMu.RLock() or in client.send <- payload goes on
InitResume(client) ==
    /\ panicked = NoPanic
    /\ \/ ipc[client].at = "rlock" /\ CanRLock
       \/ ipc[client].at = "match" /\ (closed[client] \/ Len(send[client]) < SendCap)
    /\ \E order \in Orders(ipc[client].rooms) :
       \E res \in [ipc[client].rooms -> StoreResults] :
          /\ Fetched(order, res) <= budget
          /\ budget' = budget - Fetched(order, res)
          /\ TaskCommit(client,
                 Snapshot(client, send[client], ipc[client].room, order, res))
    /\ UNCHANGED <<crooms, timed, wire, login, phase, hclients, hrooms, closed, gauge, roomLimiters, limiter,
                   rpc, rmsg, wpc, connOpen, evict, matches, poll, tick, handled,
                   persisted, dropped, mu, hpc>>

\* ------------------------------------------------------------------ poller
\* (a comparison that looks at the scores only)
MatchNeedsUpdateScores(old, new) ==
    old.home # new.home \/ old.away # new.away

MatchNeedsUpdate(old, new) ==
    \/ old.home # new.home \/ old.away # new.away
    \/ old.status # new.status

\* (the cache left as it is)
PutNothing(cache, roomID, match) == cache

PutMatch(cache, roomID, match) ==
    [r \in DOMAIN cache \cup {roomID} |-> IF r = roomID THEN match ELSE cache[r]]

\* the loop of Hub.fetchMatchUpdates under h.matchMu.Lock(), run up to the place where it
\* blocks in h.broadcast <- updateMsg or ends (the deferred Unlock)
RECURSIVE PollLoop(_, _)
PollLoop(cache, todo) ==
    IF todo = << >> THEN [matches |-> cache, poll |-> IdlePoll]
    ELSE LET roomID == Head(todo).id
             match == Head(todo).match
         IN IF roomID \notin DOMAIN cache \/ MatchNeedsUpdate(cache[roomID], match)
            THEN [matches |-> PutMatch(cache, roomID, match),
                  poll |-> [at |-> "send", todo |-> Tail(todo),
                            msg |-> MatchMsg(roomID, match)]]
            ELSE PollLoop(cache, Tail(todo))

\* the tick, one more event counted when the loop has stopped in h.broadcast <- updateMsg
Counted(t, p) == [t EXCEPT !.sent = IF p.at = "send" THEN @ + 1 ELSE @]

\* what GetLiveMatches may return: matches of live rooms (match ID = room ID), in any order
LiveMatches ==
    UNION {UNION {{[i \in 1..Len(order) |-> [id |-> order[i], match |-> snap[order[i]]]] :
                      snap \in [S -> Snapshots]} : order \in Orders(S)} :
              S \in SUBSET LiveRooms}

\* (a failed fetch that ends the poller)
PollFetchErrorStops ==
    /\ panicked = NoPanic
    /\ poll.at = "idle"
    /\ Input
    /\ tick' = [err |-> TRUE, fetched |-> << >>, sent |-> 0]
    /\ poll' = [at |-> "stopped", todo |-> << >>, msg |-> None]
    /\ UNCHANGED <<crooms, timed, wire, login, phase, hclients, hrooms, send, closed, gauge, roomLimiters,
                   limiter, rpc, rmsg, wpc, connOpen, evict, ipc, matches, panicked,
                   handled, persisted, dropped, mu, hpc>>

\* a tick of Hub.updateMatches whose GetLiveMatches fails: logged, return
PollFetchError ==
    /\ panicked = NoPanic
    /\ poll.at = "idle"
    /\ Input
    /\ tick' = [err |-> TRUE, fetched |-> << >>, sent |-> 0]
    /\ UNCHANGED <<crooms, timed, wire, login, phase, hclients, hrooms, send, closed, gauge, roomLimiters,
                   limiter, rpc, rmsg, wpc, connOpen, evict, ipc, matches, poll, panicked,
                   handled, persisted, dropped, mu, hpc>>

\* a tick whose GetLiveMatches returns matches: h.matchMu.Lock(), which waits for the
\* readers to leave, then the loop
PollFetch ==
    /\ panicked = NoPanic
    /\ poll.at = "idle"
    /\ Input
    /\ \E todo \in LiveMatches :
          IF Readers # {}
          THEN /\ poll' = [at |-> "wait", todo |-> todo, msg |-> None]
               /\ tick' = [err |-> FALSE, fetched |-> todo, sent |-> 0]
               /\ UNCHANGED matches
          ELSE /\ poll' = PollLoop(matches, todo).poll
               /\ matches' = PollLoop(matches, todo).matches
               /\ tick' = Counted([err |-> FALSE, fetched |-> todo, sent |-> 0],
                                  PollLoop(matches, todo).poll)
    /\ UNCHANGED <<crooms, timed, wire, login, phase, hclients, hrooms, send, closed, gauge, roomLimiters,
                   limiter, rpc, rmsg, wpc, connOpen, evict, ipc, panicked, handled,
                   persisted, dropped, mu, hpc>>

\* the poller blocked in h.matchMu.Lock() gets the lock
PollLock ==
    /\ panicked = NoPanic
    /\ poll.at = "wait"
    /\ Readers = {}
    /\ poll' = PollLoop(matches, poll.todo).poll
    /\ matches' = PollLoop(matches, poll.todo).matches
    /\ tick' = Counted(tick, PollLoop(matches, poll.todo).poll)
    /\ UNCHANGED <<crooms, timed, wire, login, phase, hclients, hrooms, send, closed, gauge, roomLimiters,
                   limiter, rpc, rmsg, wpc, connOpen, evict, ipc, panicked, budget, handled,
                   persisted, dropped, mu, hpc>>

\* Hub.handleBroadcast, the message coming from the poller blocked on h.broadcast; the
\* poller then goes on with its loop
HandleBroadcastPoll ==
    /\ panicked = NoPanic
    /\ poll.at = "send"
    /\ Broadcast(poll.msg)
    /\ poll' = PollLoop(matches, poll.todo).poll
    /\ matches' = PollLoop(matches, poll.todo).matches
    /\ tick' = Counted(tick, PollLoop(matches, poll.todo).poll)
    /\ UNCHANGED <<crooms, timed, wire, login, phase, hclients, gauge, limiter, rpc, rmsg, wpc, connOpen,
                   ipc, budget, handled, mu, hpc>>

\* ------------------------------------- the handlers, with h.mu, step by step
\* Only the coordinator takes h.mu, so a handler runs without a stop up to the first
\* place where it asks for the lock in a mode it cannot have.

\* Hub.handleRegister up to its first call of broadcastToRoom: h.mu.Lock() with the
\* deferred Unlock, h.clients, go h.sendInitialData, and the first room of the loop over
\* client.rooms; broadcastToRoom then asks for h.mu.RLock(). The accept path has gone
\* on when the coordinator received the connection, and starts the pumps.
RegisterLocked(client) ==
    /\ panicked = NoPanic
    /\ hpc.at = "select"
    /\ mu = "free"
    /\ phase[client] = "connecting"
    /\ hclients' = hclients \cup {client}
    /\ ipc' = [ipc EXCEPT ![client] = StartTask(client)]
    /\ phase' = [phase EXCEPT ![client] = "live"]
    /\ rpc' = [rpc EXCEPT ![client] = "read"]
    /\ wpc' = [wpc EXCEPT ![client] = "run"]
    /\ \E order \in Orders(crooms[client]) :
          IF order = << >>
          THEN /\ gauge' = gauge + 1
               /\ UNCHANGED <<hrooms, mu, hpc>>
          ELSE /\ hrooms' = JoinRoom(hrooms, Head(order), client)
               /\ mu' = "write"
               /\ hpc' = [at |-> "rlock", op |-> "register", room |-> Head(order),
                          msg |-> Msg("join", Head(order), User(client), "", Now, None)]
               /\ UNCHANGED gauge
    /\ UNCHANGED <<crooms, timed, wire, login, send, closed, roomLimiters, limiter, rmsg, connOpen, evict,
                   matches, poll, tick, panicked, budget, handled, persisted, dropped>>

\* Hub.handleBroadcast up to its call of broadcastToRoom, on the message of the poller:
\* checkRateLimit takes h.mu for writing and gives it back before limiter.Allow()
BroadcastLocked ==
    /\ panicked = NoPanic
    /\ hpc.at = "select"
    /\ mu = "free"
    /\ poll.at = "send"
    /\ roomLimiters' = TakeToken(poll.msg.room)
    /\ IF CheckRateLimit(poll.msg.room)
       THEN /\ hpc' = [at |-> "rlock", op |-> "broadcast", room |-> poll.msg.room,
                       msg |-> poll.msg]
            /\ persisted' = IF poll.msg.type = "chat" THEN persisted + 1 ELSE persisted
            /\ UNCHANGED dropped
       ELSE /\ dropped' = [dropped EXCEPT ![poll.msg.room] = @ + 1]
            /\ UNCHANGED <<hpc, persisted>>
    /\ poll' = PollLoop(matches, poll.todo).poll
    /\ matches' = PollLoop(matches, poll.todo).matches
    /\ tick' = Counted(tick, PollLoop(matches, poll.todo).poll)
    /\ UNCHANGED <<crooms, timed, wire, login, phase, hclients, hrooms, send, closed, gauge, limiter, rpc, rmsg,
                   wpc, connOpen, evict, ipc, panicked, budget, handled, mu>>

\* Hub.broadcastToRoom from h.mu.RLock() on, when the lock can be had for reading: its
\* caller is handleBroadcast, which returns after it. (handleRegister and
\* handleUnregister hold h.mu for writing when they call it.)
FanOutLocked ==
    /\ panicked = NoPanic
    /\ hpc.at = "rlock"
    /\ mu = "free"
    /\ Commit(BroadcastToRoom(HubState, hpc.room, hpc.msg))
    /\ hpc' = Waiting
    /\ UNCHANGED <<crooms, timed, wire, login, phase, hclients, gauge, roomLimiters, limiter, rpc, rmsg, wpc,
                   connOpen, ipc, matches, poll, tick, budget, handled, persisted, dropped, mu>>

\* ------------------------------------------------------------ specification
Next ==
    \/ \E c \in Clients : HandleRegister(c)
    \/ \E c \in Clients : HandleUnregisterEvicted(c)
    \/ \E c \in Clients : HandleUnregisterPump(c)
    \/ \E c \in Clients : HandleBroadcastPump(c)
    \/ HandleBroadcastPoll
    \/ \E r \in Rooms : RoomRefill(r)
    \/ \E c \in Clients : ReadFrame(c)
    \/ \E c \in Clients : ReadBadFrame(c)
    \/ \E c \in Clients : ReplyBlocked(c)
    \/ \E c \in Clients : ReadError(c)
    \/ \E c \in Clients : ConnRefill(c)
    \/ \E c \in Clients : WriteFrame(c)
    \/ \E c \in Clients : WriteClose(c)
    \/ \E c \in Clients : WritePingError(c)
    \/ \E c \in Clients : InitTask(c)
    \/ \E c \in Clients : InitResume(c)
    \/ PollFetchError
    \/ PollFetch
    \/ PollLock

Spec == Init /\ [][Next]_vars

SpecWarm == InitWarm /\ [][Next]_vars

\* the runs in which no poller tick comes and no initial-data task gets to run while the
\* connections register, chat and leave: the budget goes to the pumps
NextChat ==
    \/ \E c \in Clients : HandleRegister(c)
    \/ \E c \in Clients : HandleUnregisterEvicted(c)
    \/ \E c \in Clients : HandleUnregisterPump(c)
    \/ \E c \in Clients : HandleBroadcastPump(c)
    \/ \E r \in Rooms : RoomRefill(r)
    \/ \E c \in Clients : ReadFrame(c)
    \/ \E c \in Clients : ReadBadFrame(c)
    \/ \E c \in Clients : ReplyBlocked(c)
    \/ \E c \in Clients : ReadError(c)
    \/ \E c \in Clients : ConnRefill(c)
    \/ \E c \in Clients : WriteFrame(c)
    \/ \E c \in Clients : WriteClose(c)
    \/ \E c \in Clients : WritePingError(c)

SpecChat == InitChat /\ [][NextChat]_vars

\* the runs of the connections and the coordinator with the transport of each connection
\* followed: no poller tick comes and no initial-data task gets to run
NextWire ==
    \/ \E c \in Clients : HandleRegister(c)
    \/ \E c \in Clients : HandleUnregisterEvicted(c)
    \/ \E c \in Clients : HandleUnregisterPump(c)
    \/ \E c \in Clients : HandleBroadcastPump(c)
    \/ \E c \in Clients : ReadFrame(c)
    \/ \E c \in Clients : ReplyBlocked(c)
    \/ \E c \in Clients : ReadError(c)
    \/ \E c \in Clients : WriteFrameWire(c)
    \/ \E c \in Clients : WriteCloseWire(c)
    \/ \E c \in Clients : WritePingError(c)

SpecWire == Init /\ [][NextWire]_vars

\* the runs of the connections and the coordinator in which the clients send frames of
\* every type: no poller tick comes and no initial-data task gets to run
NextTypes ==
    \/ \E c \in Clients : HandleRegister(c)
    \/ \E c \in Clients : HandleUnregisterEvicted(c)
    \/ \E c \in Clients : HandleUnregisterPump(c)
    \/ \E c \in Clients : HandleBroadcastPump(c)
    \/ \E c \in Clients : ReadAnyFrame(c)
    \/ \E c \in Clients : ReplyBlocked(c)
    \/ \E c \in Clients : ReadError(c)
    \/ \E c \in Clients : WriteFrame(c)
    \/ \E c \in Clients : WriteClose(c)
    \/ \E c \in Clients : WritePingError(c)

SpecTypes == Init /\ [][NextTypes]_vars

\* ------------------------------------------------------------ login attempts
ErrTooManyAttempts == "too many login attempts"

\* (a tracker that blocks after the fifth failed attempt only)
TrackLoginAttemptLate(attempts, identifier, success, now) ==
    LET attempt == IF attempts[identifier].exists THEN attempts[identifier] ELSE NewAttempt
        tried == [attempt EXCEPT !.count = @ + 1, !.lastTry = now]
    IN IF success
       THEN [attempts |-> [attempts EXCEPT ![identifier] = NoAttempt], err |-> "nil"]
       ELSE IF tried.count > MaxAttempts
       THEN [attempts |-> [attempts EXCEPT ![identifier] =
                              [tried EXCEPT !.blocked = TRUE, !.blockedAt = now]],
             err |-> ErrTooManyAttempts]
       ELSE [attempts |-> [attempts EXCEPT ![identifier] = tried], err |-> "nil"]

\* Service.TrackLoginAttempt at the minute now: the map it leaves and what it returns
TrackLoginAttempt(attempts, identifier, success, now) ==
    LET attempt == IF attempts[identifier].exists THEN attempts[identifier] ELSE NewAttempt
        tried == [attempt EXCEPT !.count = @ + 1, !.lastTry = now]
    IN IF success
       THEN [attempts |-> [attempts EXCEPT ![identifier] = NoAttempt], err |-> "nil"]
       ELSE IF tried.count >= MaxAttempts
       THEN [attempts |-> [attempts EXCEPT ![identifier] =
                              [tried EXCEPT !.blocked = TRUE, !.blockedAt = now]],
             err |-> ErrTooManyAttempts]
       ELSE [attempts |-> [attempts EXCEPT ![identifier] = tried], err |-> "nil"]

\* Service.IsBlocked at the minute now
IsBlocked(attempts, identifier, now) ==
    IF ~attempts[identifier].exists THEN FALSE
    ELSE IF ~attempts[identifier].blocked THEN FALSE
    ELSE now - attempts[identifier].blockedAt < BlockMinutes

\* everything but the login attempts
hubvars == <<crooms, phase, hclients, hrooms, send, closed, gauge, roomLimiters, limiter,
             rpc, rmsg, wpc, connOpen, evict, ipc, matches, poll, panicked, budget,
             handled, persisted, dropped, mu, hpc, tick, timed, wire>>

\* a failed login attempt of the identifier is tracked
LoginFails(identifier) ==
    /\ login.seen[identifier].failed < MaxFailures
    /\ LET out == TrackLoginAttempt(login.attempts, identifier, FALSE, login.now)
           refused == out.err = ErrTooManyAttempts
       IN login' = [login EXCEPT
              !.attempts = out.attempts,
              !.seen[identifier] =
                  [failed |-> @.failed + 1,
                   refused |-> @.refused \/ refused,
                   refusedAt |-> IF refused THEN login.now ELSE @.refusedAt,
                   returned |-> out.err]]
    /\ UNCHANGED hubvars

\* a successful login attempt of the identifier is tracked
LoginSucceeds(identifier) ==
    /\ LET out == TrackLoginAttempt(login.attempts, identifier, TRUE, login.now)
       IN login' = [login EXCEPT
              !.attempts = out.attempts,
              !.seen[identifier] = [NoHistory EXCEPT !.returned = out.err]]
    /\ UNCHANGED hubvars

\* a minute passes
MinutePasses ==
    /\ login.now < MaxMinutes
    /\ login' = [login EXCEPT !.now = @ + 1]
    /\ UNCHANGED hubvars

NextLogin ==
    \/ \E i \in Identifiers : LoginFails(i)
    \/ \E i \in Identifiers : LoginSucceeds(i)
    \/ MinutePasses

SpecLogin == Init /\ [][NextLogin]_vars

\* the hub with the handlers of the coordinator followed step by step, h.mu included
NextLock ==
    \/ \E c \in Clients : RegisterLocked(c)
    \/ BroadcastLocked
    \/ FanOutLocked
    \/ \E c \in Clients : ReadFrame(c)
    \/ \E c \in Clients : ReadBadFrame(c)
    \/ \E c \in Clients : ReadError(c)
    \/ \E c \in Clients : ConnRefill(c)
    \/ \E c \in Clients : WriteFrame(c)
    \/ \E c \in Clients : WritePingError(c)
    \/ \E c \in Clients : InitTask(c)
    \/ PollFetchError
    \/ PollFetch

SpecLock == Init /\ [][NextLock]_vars

\* one room limiter, asked at any time while the clock runs
NextTimed ==
    \/ Elapse
    \/ AllowNow

SpecTimed == Init /\ [][NextTimed]_vars

\* =================================================================== claims
\* the members of a room, as the index has them
RoomMembers(room) == Members(hrooms, room)

\* a step in which the coordinator handles a broadcast event, and the event it handles
PumpBroadcast(client) == HandleBroadcastPump(client)
PollBroadcast == HandleBroadcastPoll

\* C1: when a fan-out finds a member's queue full, the other members with room still get
\* the event, and an unregister request for the full member is issued and is eventually
\* processed by the coordinator. The part a finite run refutes: the process never stops
\* while a request issued for a connection that is still registered waits to be processed.
C1_EvictionProcessed ==
    panicked # NoPanic => \A c \in Clients : evict[c] > 0 => c \notin hclients

\* C2: no producer sends on the outbound queue of a connection after the coordinator has
\* deregistered the connection and closed the queue.
C2_NoSendOnClosed == panicked # SendOnClosed

\* C3: after every coordinator event, a connection is in the member set of a room exactly
\* when the room is in the connection's own room set.
C3_IndexSymmetric ==
    \A c \in Clients : phase[c] = "live" =>
        \A r \in Rooms : (c \in RoomMembers(r)) <=> (r \in crooms[c])

\* the registered connections admitted to a room
Admitted(room) == {c \in hclients : room \in crooms[c]}

HandlesUnregister(client) ==
    HandleUnregisterEvicted(client) \/ HandleUnregisterPump(client)

\* C5: an unregister request for a connection that is not in the global set changes neither
\* the global set, nor a member set, nor a queue, nor the gauge, and fans out nothing (no
\* event is enqueued and no eviction is asked for).
C5_AbsentUnregisterNoOp ==
    [][\A c \in Clients :
          (HandlesUnregister(c) /\ c \notin hclients) =>
              /\ UNCHANGED <<hclients, hrooms, send, closed, gauge>>
              /\ \A x \in Clients \ {c} : evict'[x] = evict[x]]_vars

\* a connection for which a second request was handled: it found the connection absent
C5_Witness ==
    \E c \in Clients : handled[c] >= 2 /\ c \notin hclients /\ panicked = NoPanic

\* the leave events of a connection for a room in a queue
Leaves(queue, client, room) ==
    {i \in 1..Len(queue) : /\ queue[i].type = "leave"
                           /\ queue[i].user = User(client)
                           /\ queue[i].room = room}

\* C6: whatever deregistration requests there are for a connection, its queue is closed at
\* most once (a second close is the panic CloseOfClosed), the gauge is decremented once
\* (it stays the number of registered connections, and a deregistered connection is not
\* registered again), and a leave event of the connection for a room reaches a queue only
\* in the one step that deregisters the connection, once.
C6_DeregisteredOnce ==
    /\ [](panicked # CloseOfClosed /\ gauge = Cardinality(hclients))
    /\ [][\A c \in Clients :
             /\ (closed[c] => closed'[c] /\ c \notin hclients')
             /\ \A x \in Clients : \A r \in Rooms :
                   LET before == Cardinality(Leaves(send[x], c, r))
                       after == Cardinality(Leaves(send'[x], c, r))
                   IN after > before =>
                          /\ after = before + 1
                          /\ c \in hclients /\ c \notin hclients']_vars

\* a connection deregistered once for which two requests were handled, from its read pump
\* and from an eviction
C6_Witness ==
    \E c \in Clients :
        /\ handled[c] >= 2 /\ rpc[c] = "done" /\ closed[c]
        /\ gauge = Cardinality(hclients) /\ panicked = NoPanic

RateLimitError == ErrorMsg("Rate limit exceeded")
AccessDenied == ErrorMsg("Room access denied")

\* the read pump of the connection gives the error to its own queue and to nothing else:
\* it is enqueued, or the pump waits with it for room in the queue
RepliedOnce(client, err) ==
    /\ \/ send' = [send EXCEPT ![client] = Append(@, err)] /\ rpc'[client] = "read"
       \/ /\ Len(send[client]) >= SendCap
          /\ send' = send /\ rpc'[client] = "reply" /\ rmsg'[client] = err
    /\ panicked' = NoPanic
    /\ UNCHANGED <<hclients, hrooms>>

\* C7: a decoded frame the limiter of the connection rejects puts exactly one rate-limit
\* error on the queue of the sender, submits nothing and changes no other queue.
C7_RateLimitReply ==
    [][\A c \in Clients : \A f \in Frames :
          (OnFrame(c, f) /\ limiter[c] = 0) => RepliedOnce(c, RateLimitError)]_vars

\* C8: a frame for a room that is not in the room set of the connection puts exactly one
\* access-denied error on the queue of the sender only, submits nothing, and the
\* connection stays registered and reading.
C8_AccessDeniedReply ==
    [][\A c \in Clients : \A f \in Frames :
          (OnFrame(c, f) /\ limiter[c] > 0 /\ f.room \notin crooms[c]) =>
              RepliedOnce(c, AccessDenied)]_vars

\* the event is appended to the queue of every member of its room that has room for it
Delivered(message) ==
    \A x \in RoomMembers(message.room) :
        Len(send[x]) < SendCap => send'[x] = Append(send[x], message)

\* C9: a broadcast event the room limiter accepts is enqueued to every connection that is
\* a member of the room when the coordinator handles it, the sender included, if the
\* queue of the member is not full.
C9_BroadcastReachesMembers ==
    [][/\ \A c \in Clients :
             (PumpBroadcast(c) /\ CheckRateLimit(rmsg[c].room)) => Delivered(rmsg[c])
       /\ (PollBroadcast /\ CheckRateLimit(poll.msg.room)) => Delivered(poll.msg)]_vars

\* a registered connection has in its queue a chat event it sent itself
C9_Witness ==
    \E c \in hclients : \E i \in 1..Len(send[c]) :
        /\ send[c][i].type = "chat"
        /\ send[c][i].user = User(c) /\ send[c][i].ts = Now
        /\ send[c][i].room \in crooms[c]

\* two frames that differ in nothing but the user and the time the peer wrote
SameButSender(f, g) == f.type = g.type /\ f.room = g.room /\ f.content = g.content

\* C10: an event a read pump submits has the authenticated user of the connection as its
\* sender and the time of the server, whatever the frame says: a step taken on a frame is
\* the step taken on every frame that differs from it in the user and the time only.
C10_ServerStamped ==
    /\ [](\A c \in Clients :
             rpc[c] = "submit" => rmsg[c].user = User(c) /\ rmsg[c].ts = Now)
    /\ [][\A c \in Clients : \A f \in Frames :
             OnFrame(c, f) => \A g \in Frames : SameButSender(f, g) => OnFrame(c, g)]_vars

\* a read pump is about to submit an event (every frame of the model names a time, and
\* some a user, that the server does not take over)
C10_Witness ==
    \E c \in Clients :
        /\ rpc[c] = "submit" /\ rmsg[c].type = "chat"
        /\ rmsg[c].user = User(c) /\ rmsg[c].ts # Forged

\* the tokens a message for the room finds, given the limiters that exist
Left(limiters, room) == IF room \in DOMAIN limiters THEN limiters[room] ELSE RoomBurst

\* the coordinator handles the event for a token of its room, or fans nothing out
Spent(message) ==
    IF Left(roomLimiters, message.room) > 0
    THEN Left(roomLimiters', message.room) = Left(roomLimiters, message.room) - 1
    ELSE Left(roomLimiters', message.room) = 0 /\ UNCHANGED <<send, evict>>

\* C11: the broadcast events of a room that the coordinator fans out never exceed the
\* burst plus the tokens refilled since the limiter was made, and what is beyond is
\* dropped: every event handled takes one token of the room, an event that finds none is
\* fanned out to nobody, and a room gains a token only by a refill, one at a time and
\* never above the burst.
C11_TokenPerFanOut ==
    [][/\ \A c \in Clients : PumpBroadcast(c) => Spent(rmsg[c])
       /\ PollBroadcast => Spent(poll.msg)
       /\ \A r \in Rooms :
             Left(roomLimiters', r) > Left(roomLimiters, r) =>
                 /\ RoomRefill(r)
                 /\ Left(roomLimiters', r) = Left(roomLimiters, r) + 1
                 /\ Left(roomLimiters', r) <= RoomBurst]_vars

\* an event for a room with members found the limiter of the room used up
C11_Witness ==
    \E r \in Rooms :
        dropped[r] > 0 /\ RoomMembers(r) # {} /\ Left(roomLimiters, r) = 0

IsPrefix(a, b) == Len(a) <= Len(b) /\ SubSeq(b, 1, Len(a)) = a
IsSuffix(a, b) == Len(a) <= Len(b) /\ SubSeq(b, Len(b) - Len(a) + 1, Len(b)) = a

\* the coordinator gives the event to a queue at most once
AtMostOnce(message) ==
    \A x \in Clients : send'[x] = send[x] \/ send'[x] = Append(send[x], message)

\* C12: a member's write pump writes the events of a room in the order in which the
\* coordinator handled them, each at most once: a queue changes only by payloads added
\* behind what is queued or by payloads taken from its head, only the write pump of the
\* connection takes payloads, what it takes is gone from the queue, and a broadcast event
\* is added to a queue at most once.
C12_QueueInOrder ==
    [][/\ \A c \in Clients :
             \/ IsPrefix(send[c], send'[c])
             \/ IsSuffix(send'[c], send[c]) /\ WriteFrame(c)
       /\ \A c \in Clients : PumpBroadcast(c) => AtMostOnce(rmsg[c])
       /\ PollBroadcast => AtMostOnce(poll.msg)]_vars

\* a member has two events of a room in its queue, the join the coordinator handled first
\* before the chat event it handled later
C12_Witness ==
    \E c \in hclients :
        /\ Len(send[c]) = 2
        /\ send[c][1].type = "join" /\ send[c][2].type = "chat"
        /\ send[c][1].room = send[c][2].room /\ send[c][2].ts = Now

\* the coordinator asks the limiter of the room of the event, and of no other room
Handled(message) ==
    /\ \/ Left(roomLimiters', message.room) = Left(roomLimiters, message.room) - 1
       \/ dropped'[message.room] = dropped[message.room] + 1
    /\ \A r \in Rooms \ {message.room} :
          Left(roomLimiters', r) = Left(roomLimiters, r) /\ dropped'[r] = dropped[r]

\* C13: the coordinator handles the events of one connection in the order in which its
\* read pump submitted them: while an event of the pump waits for the coordinator the
\* pump submits no other (it neither changes nor withdraws the event), and the wait ends
\* only by the coordinator handling that very event.
C13_SubmittedInOrder ==
    [][\A c \in Clients :
          rpc[c] = "submit" =>
              \/ rpc'[c] = "submit" /\ rmsg'[c] = rmsg[c]
              \/ PumpBroadcast(c) /\ Handled(rmsg[c])]_vars

\* the only connection registered so far has an event waiting for the coordinator, which
\* has handled an earlier event of it
C13_Witness ==
    \E c \in Clients :
        /\ rpc[c] = "submit" /\ rmsg[c].type = "chat"
        /\ persisted + dropped[rmsg[c].room] >= 1
        /\ \A x \in Clients \ {c} : phase[x] = "connecting"

\* C14: every step of the coordinator ends, the fan-out of join and leave events made
\* while the index lock is held included, so that the coordinator is back in its select:
\* the coordinator never asks for h.mu for reading while it holds h.mu for writing itself
\* (nobody else can give the lock back, so that wait has no end).
C14_HandlersReturn == ~(hpc.at = "rlock" /\ mu = "write")

\* the fetched entry is worth an event: its room has no cached snapshot, or the snapshot
\* differs from the cached one in home score, away score or status
Worth(cache, e) ==
    \/ e.id \notin DOMAIN cache
    \/ <<cache[e.id].home, cache[e.id].away, cache[e.id].status>>
           # <<e.match.home, e.match.away, e.match.status>>

\* what the poller does with the fetched entries it has still to look at: it stops at the
\* first one worth an event, with the cache entry of that room replaced and the event on
\* its way to the coordinator; when none is, it ends the tick with the cache as it was
LoopOutcome(todo) ==
    LET news == {i \in 1..Len(todo) : Worth(matches, todo[i])}
    IN IF news = {}
       THEN poll'.at = "idle" /\ matches' = matches
       ELSE LET i == CHOOSE k \in news : \A j \in news : k <= j
            IN /\ poll'.at = "send"
               /\ poll'.msg.type = "event"
               /\ poll'.msg.room = todo[i].id
               /\ poll'.msg.match = todo[i].match
               /\ DOMAIN matches' = DOMAIN matches \cup {todo[i].id}
               /\ \A r \in DOMAIN matches' :
                     matches'[r] = IF r = todo[i].id THEN todo[i].match ELSE matches[r]

\* a step in which the poller, holding h.matchMu, starts the loop over what it fetched
PollStarts == (PollFetch /\ poll'.at # "wait") \/ PollLock

\* C15: on a tick the poller submits a match-event for a room only if the room has no
\* cached snapshot or the fetched match differs from the cached one in home score, away
\* score or status, and then the cache takes the fetched match; when nothing differs, no
\* event is submitted and the cache is unchanged. The same holds when the poller goes on
\* with the rest of the fetched list after the coordinator has taken an event.
C15_SubmitsOnlyChanges ==
    [][/\ PollStarts => LoopOutcome(tick'.fetched)
       /\ PollBroadcast => LoopOutcome(poll.todo)]_vars

\* a tick has fetched the match of a room and has ended without any event submitted
C15_Witness ==
    /\ poll = IdlePoll
    /\ ~tick.err /\ tick.sent = 0
    /\ \E i \in 1..Len(tick.fetched) :
          /\ tick.fetched[i].id \in DOMAIN matches
          /\ matches[tick.fetched[i].id] = tick.fetched[i].match

\* the event is put once into the queue of every member of its room that has room for it
FannedOutOnce(message) ==
    \A x \in RoomMembers(message.room) :
        Len(send[x]) < SendCap => send'[x] = Append(send[x], message)

\* C16 as stated: the match-event the poller submits for a new or changed snapshot is
\* fanned out to the members of its room when the coordinator handles it.
C16_ChangeFannedOut ==
    [][PollBroadcast => FannedOutOnce(poll.msg)]_vars

\* the cache has the snapshot the event carries, so that a poll that fetches the same
\* snapshot again finds nothing worth an event
Cached(message) ==
    /\ message.room \in DOMAIN matches
    /\ matches[message.room] = message.match
    /\ ~Worth(matches, [id |-> message.room, match |-> message.match])

\* C16: the match-event of a new or changed snapshot goes through the limiter of its
\* room like a chat message. When the limiter has a token, the event is fanned out once
\* to the members of the room; when it has none, the event is dropped and no member gets
\* it. Either way the cache has the snapshot from the moment the event is submitted, so
\* the next poll with the same state submits nothing, and a dropped event is not sent
\* again.
C16_ChangeFannedOutIfAllowed ==
    /\ [](poll.at = "send" => Cached(poll.msg))
    /\ [][PollBroadcast =>
             /\ AtMostOnce(poll.msg)
             /\ IF Left(roomLimiters, poll.msg.room) > 0
                THEN FannedOutOnce(poll.msg)
                ELSE UNCHANGED send /\ dropped'[poll.msg.room] = dropped[poll.msg.room] + 1
             /\ \A r \in DOMAIN matches : r \in DOMAIN matches' /\ matches'[r] = matches[r]]_vars

\* the only event of the surroundings so far was a tick of the poller; the coordinator
\* has dropped its match-event for a room with members, and the cache has the snapshot
C16_Witness ==
    /\ budget = MaxInputs - 1
    /\ poll = IdlePoll /\ tick.sent = 1
    /\ \E r \in Rooms :
          /\ dropped[r] = 1 /\ RoomMembers(r) # {}
          /\ r \in DOMAIN matches /\ matches[r] = tick.fetched[1].match

\* C17: a tick whose fetch of the live matches fails leaves the cache as it is and
\* submits no event, and the poller is back at its ticker: while the process runs, the
\* next tick fetches again, and may succeed or fail again.
C17_FetchErrorSkipped ==
    /\ [][PollFetchError =>
             /\ tick'.err /\ tick'.sent = 0
             /\ matches' = matches
             /\ poll' = IdlePoll
             /\ UNCHANGED <<send, rmsg, roomLimiters, dropped>>]_vars
    /\ [](tick.err => poll = IdlePoll)
    /\ []((tick.err /\ panicked = NoPanic /\ budget > 0) =>
             ENABLED PollFetch /\ ENABLED PollFetchError)

\* the last tick failed, and the cache still has the snapshot an earlier tick put there
C17_Witness ==
    /\ tick.err /\ poll = IdlePoll
    /\ matches # << >>

\* the step leaves the queues, the persistence tasks, the index, the eviction tasks and
\* the connections as they are, and the limiter of the room still has no token
Silent(room) ==
    /\ UNCHANGED <<send, persisted, hclients, hrooms, evict, closed, gauge, panicked>>
    /\ Left(roomLimiters', room) = 0

\* C18: a broadcast event the limiter of its room rejects is dropped, and nothing else
\* happens: no queue gets a payload (so the sender gets no error either), no persistence
\* task is started, the index is unchanged, and the read pump that submitted the event
\* goes on reading.
C18_RejectionSilent ==
    [][/\ \A c \in Clients :
             (PumpBroadcast(c) /\ Left(roomLimiters, rmsg[c].room) = 0) =>
                 /\ Silent(rmsg[c].room)
                 /\ rpc'[c] = "read"
       /\ (PollBroadcast /\ Left(roomLimiters, poll.msg.room) = 0) =>
             Silent(poll.msg.room)]_vars

\* the only event of the surroundings so far was a frame a registered connection sent;
\* the coordinator has dropped the chat event, nothing was persisted, the queue of the
\* sender holds no error, and its read pump reads again
C18_Witness ==
    /\ budget = MaxInputs - 1 /\ tick = NoTick
    /\ persisted = 0
    /\ \E c \in hclients :
          /\ rpc[c] = "read" /\ limiter[c] < ConnBurst
          /\ \E r \in crooms[c] : dropped[r] = 1
          /\ \A i \in 1..Len(send[c]) : send[c][i].type # "error"

\* C19: the limiter of a room earns 10 tokens a second and holds 10 at most: asked at
\* any time, it allows the message exactly when a bucket of 10 tokens that fills at 10
\* tokens a second would have a token.
C19_TenPerSecond ==
    [][AllowNow =>
          LET claimed == [timed.lim EXCEPT !.limit = Every(Second \div 10), !.burst = 10]
          IN timed'.ok <=> Advance(claimed, timed.now) >= Token]_vars

\* C20: the limiter of a room lives as long as the room entry: when a connection joins
\* a room that has no entry in the index, the entry is made and the next message to the
\* room finds a limiter with the full burst, whatever an earlier room of that name spent.
\* Stated for a room whose entry is made after a connection admitted to it has left.
C20_FreshLimiterOnRejoin ==
    [][\A r \in Rooms :
          (/\ r \notin DOMAIN hrooms /\ r \in DOMAIN hrooms'
           /\ \E c \in Clients \ hclients : r \in crooms[c] /\ handled[c] > 0) =>
              Left(roomLimiters', r) = RoomBurst]_vars

\* C21: a read pump that ends on a read error or a close sends exactly one unregister
\* request for its connection, and closes the connection only after the coordinator has
\* received it: the pump gets to the send only from its read, leaves it only by the
\* coordinator receiving the request, is finished after that, and until then the
\* connection is closed by nobody but the write pump.
C21_OneUnregisterBeforeClose ==
    [][\A c \in Clients :
          /\ ReadError(c) =>
                rpc'[c] = "unreg" /\ connOpen' = connOpen /\ handled' = handled
          /\ (rpc[c] # "unreg" /\ rpc'[c] = "unreg") => rpc[c] = "read"
          /\ (rpc[c] = "unreg" /\ rpc'[c] # "unreg") =>
                /\ HandleUnregisterPump(c)
                /\ handled'[c] = handled[c] + 1
                /\ rpc'[c] = "done" /\ ~connOpen'[c]
          /\ rpc[c] = "done" => rpc'[c] = "done"
          /\ (connOpen[c] /\ ~connOpen'[c]) =>
                \/ rpc[c] = "unreg" /\ rpc'[c] = "done"
                \/ wpc[c] = "run" /\ wpc'[c] = "done"]_vars

\* a read pump has ended: the one request handled for its connection is its own, and it
\* has closed the connection, which the write pump has not done
C21_Witness ==
    \E c \in Clients :
        /\ rpc[c] = "done" /\ handled[c] = 1 /\ evict[c] = 0
        /\ ~connOpen[c] /\ wpc[c] = "run"
        /\ c \notin hclients

\* a step that takes the read pump of the connection on, or one in which the coordinator
\* handles an unregister request for the connection
TowardsUnregister(c) ==
    \/ ReadError(c) \/ ReplyBlocked(c)
    \/ HandleBroadcastPump(c)
    \/ HandleUnregisterPump(c) \/ HandleUnregisterEvicted(c)

\* C22: a connection whose write pump has ended on a write error is deregistered in
\* the end, whatever its read pump is doing. The part a finite run refutes: while the
\* process runs and such a connection is still registered, its read pump can go on
\* towards its unregister request or the coordinator has a request for it to handle (a
\* write pump that ends on the close frame ends after the deregistration).
C22_WriteErrorDeregisters ==
    \A c \in Clients :
        (panicked = NoPanic /\ wpc[c] = "done" /\ c \in hclients) =>
            ENABLED TowardsUnregister(c)

\* the payload belongs to a room (an error reply belongs to none)
RoomScoped(message) == message.type \in {"chat", "join", "leave", "event"}

\* C23: every payload of a room in the queue of a connection (a fan-out of a chat, join,
\* leave or match event, a history message, a match snapshot) is for a room of the room
\* set the connection was admitted with, and so is every event its read pump submits.
C23_WithinAdmittedRooms ==
    \A c \in Clients :
        /\ \A i \in 1..Len(send[c]) :
              RoomScoped(send[c][i]) => send[c][i].room \in crooms[c]
        /\ rpc[c] = "submit" => rmsg[c].room \in crooms[c]

\* a connection admitted to some rooms only has the history of one of its rooms in its
\* queue while its read pump is about to submit an event
C23_Witness ==
    \E c \in hclients :
        /\ crooms[c] # Rooms
        /\ rpc[c] = "submit" /\ RoomScoped(rmsg[c])
        /\ \E i \in 1..Len(send[c]) : send[c][i].user = Stored

\* C24: a frame that does not decode is skipped: nothing is submitted, no queue gets a
\* payload (no error reply), the limiter of the connection keeps its tokens, the index
\* and the connection are as before, and the read pump reads the next frame.
C24_BadFrameSkipped ==
    [][\A c \in Clients :
          ReadBadFrame(c) =>
              /\ rpc'[c] = "read" /\ connOpen'[c]
              /\ UNCHANGED <<send, rmsg, limiter, hclients, hrooms, closed, evict,
                             roomLimiters, persisted, dropped, panicked>>]_vars

\* one event of the surroundings has come, and it was a frame that did not decode: no
\* connection has spent a token, no pump has ended or left its read
C24_Witness ==
    /\ budget = MaxChatInputs - 1
    /\ \A c \in Clients :
          /\ limiter[c] = ConnBurst
          /\ rpc[c] \in {"idle", "read"} /\ wpc[c] \in {"idle", "run"}
    /\ \E c \in hclients : rpc[c] = "read" /\ connOpen[c]

\* what the step has added behind what was in the queue
Added(x) == SubSeq(send'[x], Len(send[x]) + 1, Len(send'[x]))

\* the join events of the connection among these payloads, for the room
Joins(payloads, c, r) ==
    {i \in 1..Len(payloads) :
        /\ payloads[i].type = "join" /\ payloads[i].room = r
        /\ payloads[i].user = User(c) /\ payloads[i].ts = Now}

C26_EvictionsReceived ==
    panicked # NoPanic => \A c \in Clients : evict[c] = 0

\* the pieces of a text between its line breaks
RECURSIVE SplitFrom(_, _)
SplitFrom(text, piece) ==
    IF text = << >> THEN <<piece>>
    ELSE IF Head(text) = NL THEN <<piece>> \o SplitFrom(Tail(text), << >>)
    ELSE SplitFrom(Tail(text), Append(piece, Head(text)))

Split(text) == SplitFrom(text, << >>)

\* the payloads as the pieces a peer expects: each the text of one payload
Pieces(payloads) == [i \in 1..Len(payloads) |-> <<payloads[i]>>]

\* the pieces of the data frames written, frame after frame
RECURSIVE Payloads(_)
Payloads(frames) ==
    IF frames = << >> THEN << >>
    ELSE IF Head(frames) = CloseFrame THEN Payloads(Tail(frames))
    ELSE Split(Head(frames).text) \o Payloads(Tail(frames))

\* C27: once the coordinator has closed the queue of a connection, what is in the queue
\* stays there until the write pump takes it; a turn of the write pump that meets no
\* write error puts all of it on the transport, in queue order; and the close frame is
\* written only when the closed queue is empty, after which the pump has ended.
C27_FlushBeforeClose ==
    [][\A c \in Clients :
          /\ (closed[c] /\ send'[c] # send[c]) => WriteFrameWire(c)
          /\ (WriteFrameWire(c) /\ closed[c] /\ wpc'[c] = "run") =>
                /\ send'[c] = << >>
                /\ Len(wire'[c].frames) = Len(wire[c].frames) + 1
                /\ SubSeq(wire'[c].frames, 1, Len(wire[c].frames)) = wire[c].frames
                /\ wire'[c].frames[Len(wire'[c].frames)].kind = "text"
                /\ Split(wire'[c].frames[Len(wire'[c].frames)].text) = Pieces(send[c])
          /\ (wire'[c].frames # wire[c].frames
                /\ wire'[c].frames[Len(wire'[c].frames)] = CloseFrame) =>
                /\ closed[c] /\ send[c] = << >>
                /\ wpc'[c] = "done"
                /\ wire'[c].frames = Append(wire[c].frames, CloseFrame)]_vars

\* a connection evicted for its full queue, its read pump still running: the write pump
\* has written the payloads of the queue in one frame, then the close frame, and ended
C27_Witness ==
    \E c \in Clients :
        /\ closed[c] /\ wpc[c] = "done" /\ rpc[c] \in {"read", "submit", "reply"}
        /\ Len(wire[c].frames) = 2
        /\ Len(Split(wire[c].frames[1].text)) = SendCap
        /\ wire[c].frames[2] = CloseFrame

NoWriteError(c) ==
    \/ wpc[c] \in {"idle", "run"}
    \/ /\ wire[c].frames # << >>
       /\ wire[c].frames[Len(wire[c].frames)] = CloseFrame

PersistedFor(message) ==
    IF message.type = "chat" /\ Left(roomLimiters, message.room) > 0
    THEN persisted' = persisted + 1 /\ FannedOutOnce(message)
    ELSE persisted' = persisted

\* C29: the coordinator starts exactly one persistence task for every chat event the
\* limiter of the room accepts, none for an event of another kind or one the limiter
\* rejects, and none at any other time; the fan-out of the event does not wait for the
\* task.
C29_PersistChatOnce ==
    [][/\ \A c \in Clients : PumpBroadcast(c) => PersistedFor(rmsg[c])
       /\ PollBroadcast => PersistedFor(poll.msg)
       /\ persisted' # persisted =>
             \E c \in Clients : PumpBroadcast(c) /\ rmsg[c].type = "chat"]_vars

\* one persistence task has been started, for the chat event that took the first token
\* of its room and is in the queue of a member
C29_Witness ==
    /\ persisted = 1
    /\ \E c \in hclients : \E i \in 1..Len(send[c]) :
          /\ send[c][i].type = "chat" /\ send[c][i].ts = Now
          /\ Left(roomLimiters, send[c][i].room) = RoomBurst - 1
          /\ dropped[send[c][i].room] = 0

\* C30: an initial-data task never holds the read lock of the match cache while it is
\* blocked on the queue of its connection, so the poller never waits for the lock behind
\* a connection whose queue is full.
C30_NoLockWhileBlocked ==
    \A c \in Clients : ~(ipc[c].at = "match" /\ poll.at = "wait")

\* how many times the payload is in the queue
RECURSIVE Times(_, _)
Times(queue, message) ==
    IF queue = << >> THEN 0
    ELSE (IF Head(queue) = message THEN 1 ELSE 0) + Times(Tail(queue), message)

\* C31: an initial-data task that runs to its end while a snapshot is cached for a room
\* of its connection has put a match event with that snapshot on the queue of the
\* connection, whatever the store gave as the history of the room.
C31_SnapshotDelivered ==
    [][\A c \in Clients :
          (InitTask(c) /\ ipc'[c].at = "done" /\ panicked' = NoPanic) =>
              \A r \in ipc[c].rooms \cap DOMAIN matches :
                  Times(send'[c], MatchMsg(r, matches[r])) >
                      Times(send[c], MatchMsg(r, matches[r]))]_vars

\* C32: an event read from a connection the coordinator has deregistered is not handed
\* to the coordinator for fan-out: the membership check of the read pump rejects it.
C32_DeregisteredNotSubmitted ==
    [][\A c \in Clients :
          (ReadFrame(c) /\ c \notin hclients) => rpc'[c] # "submit"]_vars

\* a step of the coordinator: a register, an unregister or a broadcast handled
CoordinatorStep ==
    \/ PollBroadcast
    \/ \E x \in Clients :
          \/ HandleRegister(x) \/ PumpBroadcast(x)
          \/ HandleUnregisterEvicted(x) \/ HandleUnregisterPump(x)

\* C33: a member sees no gap in the stream of a room: once a fan-out has left a
\* connection out because its queue was full (its eviction is on the way), no later
\* fan-out puts anything on its queue. Said of the connections admitted to one room
\* only, for which the event left out and every later event are of the same room.
C33_NoGap ==
    [][\A c \in Clients : \A r \in Rooms :
          (CoordinatorStep /\ crooms[c] = {r} /\ evict[c] > 0) =>
              Added(c) = << >>]_vars

\* C34: every room entry of the index has a member; an entry comes into the index only
\* in the step that registers its first member, and leaves it exactly in the step that
\* deregisters its last member.
C34_NoEmptyRoom ==
    /\ [](\A r \in DOMAIN hrooms : hrooms[r] # {})
    /\ [][\A r \in Rooms :
             /\ (r \notin DOMAIN hrooms /\ r \in DOMAIN hrooms') =>
                   \E c \in Clients : HandleRegister(c) /\ hrooms'[r] = {c}
             /\ (r \in DOMAIN hrooms /\ r \notin DOMAIN hrooms') =>
                   \E c \in Clients : HandlesUnregister(c) /\ hrooms[r] = {c}
             /\ \A c \in Clients :
                   (HandlesUnregister(c) /\ r \in DOMAIN hrooms /\ hrooms[r] = {c}) =>
                       r \notin DOMAIN hrooms']_vars

\* a connection has been deregistered: the room it was alone in has no entry, the room it
\* shared still has one, with the member that is left
C34_Witness ==
    \E c \in Clients \ hclients : \E r, q \in crooms[c] :
        /\ handled[c] > 0
        /\ r \notin DOMAIN hrooms
        /\ q \in DOMAIN hrooms /\ hrooms[q] # {} /\ c \notin hrooms[q]

\* C35: every connection in the member set of a room is in h.clients and its queue is
\* open; the step that handles an unregister request for a connection leaves it in no
\* member set.
C35_MembersRegisteredAndOpen ==
    /\ [](\A r \in DOMAIN hrooms : \A c \in hrooms[r] : c \in hclients /\ ~closed[c])
    /\ [][\A c \in Clients :
             HandlesUnregister(c) => \A r \in DOMAIN hrooms' : c \notin hrooms'[r]]_vars

\* a connection of two rooms has been deregistered, its queue is closed, and the member
\* that is left in the room they shared has the leave event on its open queue
C35_Witness ==
    \E c \in Clients \ hclients : \E x \in hclients : \E r \in Rooms :
        /\ Cardinality(crooms[c]) > 1 /\ closed[c]
        /\ x \in RoomMembers(r) /\ ~closed[x]
        /\ Leaves(send[x], c, r) # {}

\* the rooms of the connection in which x is a member after the step
SharedAfter(c, x) == {r \in crooms[c] : x \in Members(hrooms', r)}

C37_PumpEventsChatOrTyping ==
    [][\A c, x \in Clients :
          PumpBroadcast(c) =>
              \A i \in 1..Len(Added(x)) : Added(x)[i].type \in {"chat", "typing"}]_vars

\* C38: a read pump that is putting an error reply on the queue of its own connection is
\* never blocked for good. The part a finite run refutes: while the process runs, a read
\* pump blocked in that send after the write pump of the connection has ended can go on.
C38_ReplyNeverStuck ==
    \A c \in Clients :
        (panicked = NoPanic /\ rpc[c] = "reply" /\ wpc[c] = "done") =>
            ENABLED ReplyBlocked(c)

\* C39: for every identifier, a failed attempt is answered with the too-many-attempts
\* error exactly when it is the fifth or a later failed attempt since the last successful
\* one; the identifier is blocked from such an answer until 15 minutes after the most
\* recent one, and at no other time; a successful attempt removes the record of the
\* identifier, which is then not blocked, and the count starts again from zero.
C39_LoginBlocking ==
    /\ [](\A i \in Identifiers :
            IsBlocked(login.attempts, i, login.now) <=>
                /\ login.seen[i].refused
                /\ login.now - login.seen[i].refusedAt < 15)
    /\ [][\A i \in Identifiers :
             /\ LoginFails(i) =>
                   (login'.seen[i].returned = ErrTooManyAttempts <=>
                        login.seen[i].failed + 1 >= 5)
             /\ LoginSucceeds(i) =>
                   /\ login'.seen[i].returned = "nil"
                   /\ ~login'.attempts[i].exists
                   /\ ~IsBlocked(login'.attempts, i, login'.now)
                   /\ login'.seen[i].failed = 0]_vars

\* an identifier was refused at its fifth failed attempt and again at a later one, 15
\* minutes have passed since and it is no longer blocked; another identifier has made a
\* successful attempt and has no record
C39_Witness ==
    \E i, j \in Identifiers :
        /\ i # j
        /\ login.seen[i].failed > 5 /\ login.seen[i].refusedAt > 0
        /\ login.seen[i].returned = ErrTooManyAttempts
        /\ login.now - login.seen[i].refusedAt >= 15
        /\ ~IsBlocked(login.attempts, i, login.now)
        /\ login.seen[j].returned = "nil" /\ login.seen[j].failed = 0
        /\ ~login.attempts[j].exists

====
